---- MODULE Spec2Model ----
(***************************************************************************)
(* terraform-provider-overseerr: the provider's Configure and the          *)
(* overseerr_settings resource (Configure, Create, Read, Update, Delete,   *)
(* ImportState), with the remote settings object they act on and the       *)
(* Terraform state they write.                                             *)
(***************************************************************************)
EXTENDS Integers, Sequences, FiniteSets, TLC

VARIABLES
    data,           \* Overseerr: the provider block's api_key and url
    environ,        \* os.Getenv: OVERSEERR_URL, OVERSEERR_API_KEY
    phase,          \* "start" -> "provider_configured" -> "ready"
    provDiags,      \* resp.Diagnostics of the provider's Configure
    ResourceData,   \* resp.ResourceData
    DataSourceData, \* resp.DataSourceData
    client,         \* SettingsResource.client
    resDiags,       \* resp.Diagnostics of the resource's Configure
    remote,         \* the remote settings object (overseerr.MainSettings)
    tfstate,        \* the tracked Terraform state of overseerr_settings
    lastOp,         \* the last operation on the resource or its remote object
    prevOp,         \* the one before it
    outcome,        \* how lastOp ended: "ok", "error", "panic"
    prevOutcome,    \* how prevOp ended
    diags,          \* resp.Diagnostics of lastOp
    calls,          \* remote calls lastOp issued
    response,       \* what lastOp's remote call returned (NewMainSettings if nothing)
    plan,           \* the plan lastOp received (null if it takes none)
    oldState,       \* tfstate before lastOp
    oldRemote,      \* remote before lastOp
    applied,        \* the resource block last applied with success (null if none)
    titleOnly       \* lastOp got a block that differs from applied in application_title alone

vars == <<data, environ, phase, provDiags, ResourceData, DataSourceData, client,
          resDiags, remote, tfstate, lastOp, prevOp, outcome, prevOutcome, diags,
          calls, response, plan, oldState, oldRemote, applied, titleOnly>>

provVars == <<data, environ, phase, provDiags, ResourceData, DataSourceData,
              client, resDiags>>

opVars == <<remote, tfstate, lastOp, prevOp, outcome, prevOutcome, diags, calls,
            response, plan, oldState, oldRemote, applied, titleOnly>>

-----------------------------------------------------------------------------
(* terraform-plugin-framework attribute values: known, null or unknown.     *)
(* A null or unknown value holds its type's zero value, which is what the   *)
(* Value* accessors return for it.                                          *)

StringValue(s) == [k |-> "known", v |-> s]
StringNull == [k |-> "null", v |-> ""]
StringUnknown == [k |-> "unknown", v |-> ""]
BoolValue(b) == [k |-> "known", v |-> b]
BoolNull == [k |-> "null", v |-> FALSE]
BoolUnknown == [k |-> "unknown", v |-> FALSE]
Float64Value(x) == [k |-> "known", v |-> x]
Float64Null == [k |-> "null", v |-> 0]
Float64Unknown == [k |-> "unknown", v |-> 0]

IsUnknown(x) == x.k = "unknown"
IsNull(x) == x.k = "null"
ValueString(x) == IF x.k = "known" THEN x.v ELSE ""
ValueBool(x) == IF x.k = "known" THEN x.v ELSE FALSE
ValueFloat64(x) == IF x.k = "known" THEN x.v ELSE 0

(* float32(x) of a non-negative whole float64 below 2^25: exact up to 2^24, *)
(* above it rounded to the nearest even multiple of the 2-wide spacing.     *)
Float32Exact == 16777216
Float32(x) ==
    IF x <= Float32Exact \/ x % 2 = 0 THEN x
    ELSE IF ((x - 1) \div 2) % 2 = 0 THEN x - 1 ELSE x + 1

-----------------------------------------------------------------------------
(* Diagnostics *)

Warning(summary, detail) == [severity |-> "warning", summary |-> summary, detail |-> detail]
Error(summary, detail) == [severity |-> "error", summary |-> summary, detail |-> detail]
HasError(ds) == \E i \in 1..Len(ds) : ds[i].severity = "error"
HasWarning(ds) == \E i \in 1..Len(ds) : ds[i].severity = "warning"
HasSummary(ds, s) == \E i \in 1..Len(ds) : ds[i].severity = "error" /\ ds[i].summary = s

-----------------------------------------------------------------------------
(* The provider *)

NilClient == [nil |-> TRUE, url |-> "", XApiKey |-> ""]

\* overseerr.NewConfiguration, AddDefaultHeader("X-Api-Key", key),
\* Servers[0].URL = url, overseerr.NewAPIClient
NewAPIClient(url, key) == [nil |-> FALSE, url |-> url, XApiKey |-> key]

\* resolution that prefers the environment's value when there is one
ResolveString_EnvFirst(v, envValue) ==
    IF envValue # "" THEN envValue ELSE ValueString(v)

\* the explicit value, or the environment's when the attribute is null
ResolveString(v, envValue) ==
    IF IsNull(v) THEN envValue ELSE ValueString(v)

NoClient(ds) == [diags |-> ds, DataSourceData |-> NilClient, ResourceData |-> NilClient]

UnknownURLDiag == Warning("Unable to create client", "Cannot use unknown value as url")

EmptyURLDiag == Error("Unable to find URL", "URL cannot be an empty string")

\* the unknown api_key reported as an error
UnknownKeyDiag_AsError == Error("Unable to create client", "Cannot use unknown value as api_key")

UnknownKeyDiag == Warning("Unable to create client", "Cannot use unknown value as api_key")

\* the empty api_key reported as a warning
EmptyKeyDiag_AsWarning == Warning("Unable to find API key", "API key cannot be an empty string")

EmptyKeyDiag == Error("Unable to find API key", "API key cannot be an empty string")

\* OverseerrProvider.Configure as a function of the provider block and the environment
ConfigureResponse(d, e) ==
    IF IsUnknown(d.url) THEN NoClient(<<UnknownURLDiag>>)
    ELSE LET url == ResolveString(d.url, e.OVERSEERR_URL) IN
         IF url = "" THEN NoClient(<<EmptyURLDiag>>)
         ELSE IF IsUnknown(d.api_key) THEN NoClient(<<UnknownKeyDiag>>)
         ELSE LET key == ResolveString(d.api_key, e.OVERSEERR_API_KEY) IN
              IF key = "" THEN NoClient(<<EmptyKeyDiag>>)
              ELSE [diags |-> <<>>,
                    DataSourceData |-> NewAPIClient(url, key),
                    ResourceData |-> NewAPIClient(url, key)]

ProviderConfigure ==
    /\ phase = "start"
    /\ LET resp == ConfigureResponse(data, environ) IN
         /\ provDiags' = resp.diags
         /\ ResourceData' = resp.ResourceData
         /\ DataSourceData' = resp.DataSourceData
    /\ phase' = "provider_configured"
    /\ UNCHANGED <<data, environ, client, resDiags>>
    /\ UNCHANGED opVars

\* SettingsResource.Configure: req.ProviderData is what the provider published
ResourceConfigureResponse(providerData, c) ==
    IF providerData.nil THEN [client |-> c, diags |-> <<>>]
    ELSE IF ~("XApiKey" \in DOMAIN providerData)
         THEN [client |-> c,
               diags |-> <<Error("Unexpected Resource Configure Type",
                                 "Expected *sonarr.APIClient")>>]
         ELSE [client |-> providerData, diags |-> <<>>]

\* The host configures the resource once the provider's Configure has ended
\* without an error diagnostic; a warning does not stop it.
ResourceConfigure ==
    /\ phase = "provider_configured"
    /\ ~HasError(provDiags)
    /\ LET resp == ResourceConfigureResponse(ResourceData, client) IN
         /\ client' = resp.client
         /\ resDiags' = resp.diags
    /\ phase' = "ready"
    /\ UNCHANGED <<data, environ, provDiags, ResourceData, DataSourceData>>
    /\ UNCHANGED opVars

-----------------------------------------------------------------------------
(* The settings resource: schema, data model and mapping *)

\* SettingsResource.Schema: per attribute, whether the configuration may set it,
\* whether the provider computes it, and its static default
Schema ==
    [new_plex_login |-> [optional |-> FALSE, computed |-> TRUE, hasDefault |-> FALSE,
                         default |-> BoolNull, null |-> BoolNull, unknown |-> BoolUnknown],
     local_login |-> [optional |-> FALSE, computed |-> TRUE, hasDefault |-> FALSE,
                      default |-> BoolNull, null |-> BoolNull, unknown |-> BoolUnknown],
     partial_requests_enabled |->
                     [optional |-> TRUE, computed |-> TRUE, hasDefault |-> TRUE,
                      default |-> BoolValue(TRUE), null |-> BoolNull, unknown |-> BoolUnknown],
     hide_available |-> [optional |-> TRUE, computed |-> TRUE, hasDefault |-> TRUE,
                         default |-> BoolValue(FALSE), null |-> BoolNull, unknown |-> BoolUnknown],
     csrf_protection |-> [optional |-> TRUE, computed |-> TRUE, hasDefault |-> TRUE,
                          default |-> BoolValue(TRUE), null |-> BoolNull, unknown |-> BoolUnknown],
     trust_proxy |-> [optional |-> TRUE, computed |-> TRUE, hasDefault |-> TRUE,
                      default |-> BoolValue(TRUE), null |-> BoolNull, unknown |-> BoolUnknown],
     default_permissions |->
                     [optional |-> FALSE, computed |-> TRUE, hasDefault |-> FALSE,
                      default |-> Float64Null, null |-> Float64Null, unknown |-> Float64Unknown],
     application_url |-> [optional |-> TRUE, computed |-> TRUE, hasDefault |-> FALSE,
                          default |-> StringNull, null |-> StringNull, unknown |-> StringUnknown],
     application_title |-> [optional |-> FALSE, computed |-> FALSE, hasDefault |-> FALSE,
                            default |-> StringNull, null |-> StringNull, unknown |-> StringUnknown],
     app_language |-> [optional |-> TRUE, computed |-> TRUE, hasDefault |-> TRUE,
                       default |-> StringValue("en"), null |-> StringNull, unknown |-> StringUnknown]]

Attributes == DOMAIN Schema

\* Settings with every attribute null: what the host holds for a resource it does not track
NullSettings == [a \in Attributes |-> Schema[a].null]

NoResource == [tracked |-> FALSE, attrs |-> NullSettings]

\* overseerr.NewMainSettings
NewMainSettings ==
    [appLanguage |-> "", applicationUrl |-> "", applicationTitle |-> "",
     defaultPermissions |-> 0, trustProxy |-> FALSE, csrfProtection |-> FALSE,
     hideAvailable |-> FALSE, partialRequestsEnabled |-> FALSE, localLogin |-> FALSE,
     newPlexLogin |-> FALSE]

\* Settings.write with default_permissions left as it was
write_SkipsDefaultPermissions(s, settings) ==
    [s EXCEPT !.app_language = StringValue(settings.appLanguage),
              !.application_url = StringValue(settings.applicationUrl),
              !.application_title = StringValue(settings.applicationTitle),
              !.trust_proxy = BoolValue(settings.trustProxy),
              !.csrf_protection = BoolValue(settings.csrfProtection),
              !.hide_available = BoolValue(settings.hideAvailable),
              !.partial_requests_enabled = BoolValue(settings.partialRequestsEnabled),
              !.local_login = BoolValue(settings.localLogin),
              !.new_plex_login = BoolValue(settings.newPlexLogin)]

\* Settings.write: remote -> local
write(s, settings) ==
    [s EXCEPT !.app_language = StringValue(settings.appLanguage),
              !.application_url = StringValue(settings.applicationUrl),
              !.application_title = StringValue(settings.applicationTitle),
              !.default_permissions = Float64Value(settings.defaultPermissions),
              !.trust_proxy = BoolValue(settings.trustProxy),
              !.csrf_protection = BoolValue(settings.csrfProtection),
              !.hide_available = BoolValue(settings.hideAvailable),
              !.partial_requests_enabled = BoolValue(settings.partialRequestsEnabled),
              !.local_login = BoolValue(settings.localLogin),
              !.new_plex_login = BoolValue(settings.newPlexLogin)]

\* Settings.read with the application title left at NewMainSettings' value
read_DropsTitle(s) ==
    [NewMainSettings EXCEPT
        !.appLanguage = ValueString(s.app_language),
        !.applicationUrl = ValueString(s.application_url),
        !.defaultPermissions = Float32(ValueFloat64(s.default_permissions)),
        !.trustProxy = ValueBool(s.trust_proxy),
        !.csrfProtection = ValueBool(s.csrf_protection),
        !.hideAvailable = ValueBool(s.hide_available),
        !.partialRequestsEnabled = ValueBool(s.partial_requests_enabled),
        !.localLogin = ValueBool(s.local_login),
        !.newPlexLogin = ValueBool(s.new_plex_login)]

\* Settings.read: local -> remote
read(s) ==
    [NewMainSettings EXCEPT
        !.appLanguage = ValueString(s.app_language),
        !.applicationUrl = ValueString(s.application_url),
        !.applicationTitle = ValueString(s.application_title),
        !.defaultPermissions = Float32(ValueFloat64(s.default_permissions)),
        !.trustProxy = ValueBool(s.trust_proxy),
        !.csrfProtection = ValueBool(s.csrf_protection),
        !.hideAvailable = ValueBool(s.hide_available),
        !.partialRequestsEnabled = ValueBool(s.partial_requests_enabled),
        !.localLogin = ValueBool(s.local_login),
        !.newPlexLogin = ValueBool(s.new_plex_login)]

\* The plan the host derives from a resource block under Schema: a configured
\* value as written; a null one takes its default, else the prior state's value;
\* and, when anything differs from the prior state, every computed attribute
\* with neither a configured value nor a default is unknown.
ProposedState(cfg, prior) ==
    [a \in Attributes |->
        IF ~IsNull(cfg[a]) THEN cfg[a]
        ELSE IF Schema[a].hasDefault THEN Schema[a].default
        ELSE IF prior.tracked /\ Schema[a].computed THEN prior.attrs[a]
        ELSE Schema[a].null]

PlanFor(cfg, prior) ==
    LET proposed == ProposedState(cfg, prior) IN
    IF prior.tracked /\ proposed = prior.attrs THEN proposed
    ELSE [a \in Attributes |->
            IF IsNull(cfg[a]) /\ Schema[a].computed /\ ~Schema[a].hasDefault
            THEN Schema[a].unknown
            ELSE proposed[a]]

-----------------------------------------------------------------------------
(* The remote service behind the client's SettingsAPI *)

ServerURL == "http://overseerr:5055"
ServerAPIKey == "GoodAPIKey"

\* Whether the service accepts a request made with client c
Authorized(c) == ~c.nil /\ c.url = ServerURL /\ c.XApiKey = ServerAPIKey

\* The ways Execute() can end for client c: TRUE is a response, FALSE an error
\* (always an error for a client the service does not accept)
Execute(c) == IF Authorized(c) THEN {TRUE, FALSE} ELSE {FALSE}

\* POST settings/main: the stored object takes every field the request sets,
\* and the stored object is the response
CreateMain(stored, request) ==
    [f \in DOMAIN stored |-> IF f \in DOMAIN request THEN request[f] ELSE stored[f]]

\* GET settings/main
GetMain(stored) == stored

-----------------------------------------------------------------------------
(* The resource's operations *)

\* The host invokes the resource's operations once it is configured
Ready == phase = "ready" /\ ~HasError(resDiags)

ClientError(detail) == <<Error("Client Error", detail)>>

\* bookkeeping of an operation op that ended as out with diagnostics ds after n remote calls
Ended(op, out, ds, n) ==
    /\ lastOp' = op
    /\ prevOp' = lastOp
    /\ outcome' = out
    /\ prevOutcome' = outcome
    /\ diags' = ds
    /\ calls' = n
    /\ oldState' = tfstate
    /\ oldRemote' = remote

\* r.client.SettingsAPI on a nil r.client: the process panics, nothing is returned
Panics(op) ==
    /\ Ended(op, "panic", <<>>, 0)
    /\ response' = NewMainSettings
    /\ UNCHANGED <<remote, tfstate, applied>>

Create(cfg) ==
    /\ Ready
    /\ ~tfstate.tracked
    /\ LET settings == PlanFor(cfg, tfstate)
           request == read(settings)
       IN
       /\ plan' = settings
       /\ IF client.nil THEN Panics("Create")
          ELSE \E ok \in Execute(client) :
                 IF ok
                 THEN LET resp == CreateMain(remote, request) IN
                      /\ remote' = resp
                      /\ response' = resp
                      /\ tfstate' = [tracked |-> TRUE, attrs |-> write(settings, resp)]
                      /\ applied' = cfg
                      /\ Ended("Create", "ok", <<>>, 1)
                 ELSE /\ Ended("Create", "error",
                               ClientError("Unable to create config, got error"), 1)
                      /\ response' = NewMainSettings
                      /\ UNCHANGED <<remote, tfstate, applied>>
    /\ titleOnly' = FALSE
    /\ UNCHANGED provVars

Read ==
    /\ Ready
    /\ tfstate.tracked
    /\ LET settings == tfstate.attrs IN
       IF client.nil THEN Panics("Read")
       ELSE \E ok \in Execute(client) :
              IF ok
              THEN LET resp == GetMain(remote) IN
                   /\ response' = resp
                   /\ tfstate' = [tracked |-> TRUE, attrs |-> write(settings, resp)]
                   /\ Ended("Read", "ok", <<>>, 1)
                   /\ UNCHANGED <<remote, applied>>
              ELSE /\ Ended("Read", "error",
                            ClientError("Unable to read config, got error"), 1)
                   /\ response' = NewMainSettings
                   /\ UNCHANGED <<remote, tfstate, applied>>
    /\ plan' = NullSettings
    /\ titleOnly' = FALSE
    /\ UNCHANGED provVars

\* The host calls Update only with a plan that differs from the prior state
Update(cfg) ==
    /\ Ready
    /\ tfstate.tracked
    /\ PlanFor(cfg, tfstate) # tfstate.attrs
    /\ LET settings == PlanFor(cfg, tfstate)
           request == read(settings)
       IN
       /\ plan' = settings
       /\ IF client.nil THEN Panics("Update")
          ELSE \E ok \in Execute(client) :
                 IF ok
                 THEN LET resp == CreateMain(remote, request) IN
                      /\ remote' = resp
                      /\ response' = resp
                      /\ tfstate' = [tracked |-> TRUE, attrs |-> write(settings, resp)]
                      /\ applied' = cfg
                      /\ Ended("Update", "ok", <<>>, 1)
                 ELSE /\ Ended("Update", "error",
                               ClientError("Unable to update config, got error"), 1)
                      /\ response' = NewMainSettings
                      /\ UNCHANGED <<remote, tfstate, applied>>
    /\ titleOnly' = /\ cfg.application_title # applied.application_title
                    /\ \A a \in Attributes \ {"application_title"} : cfg[a] = applied[a]
    /\ UNCHANGED provVars

\* Delete that also commits empty settings to the service
Delete_ResetsRemote ==
    /\ Ready
    /\ tfstate.tracked
    /\ tfstate' = NoResource
    /\ remote' = CreateMain(remote, NewMainSettings)
    /\ Ended("Delete", "ok", <<>>, 1)
    /\ response' = NewMainSettings
    /\ plan' = NullSettings
    /\ applied' = NullSettings
    /\ titleOnly' = FALSE
    /\ UNCHANGED provVars

Delete ==
    /\ Ready
    /\ tfstate.tracked
    /\ tfstate' = NoResource
    /\ Ended("Delete", "ok", <<>>, 0)
    /\ response' = NewMainSettings
    /\ plan' = NullSettings
    /\ applied' = NullSettings
    /\ titleOnly' = FALSE
    /\ UNCHANGED remote
    /\ UNCHANGED provVars

\* SettingsResource.ImportState: resp.State as the handler leaves it
ImportStateResponse(id, empty) == empty

\* The host imports into an address it does not track yet, and refuses an
\* import whose handler returned no state
ImportState(id) ==
    /\ Ready
    /\ ~tfstate.tracked
    /\ LET imported == ImportStateResponse(id, NoResource) IN
       /\ tfstate' = imported
       /\ IF imported.tracked
          THEN Ended("ImportState", "ok", <<>>, 0)
          ELSE Ended("ImportState", "error",
                     <<Error("Missing Resource Import State",
                             "Resource ImportState method returned no State in response")>>, 0)
    /\ response' = NewMainSettings
    /\ plan' = NullSettings
    /\ titleOnly' = FALSE
    /\ UNCHANGED <<remote, applied>>
    /\ UNCHANGED provVars

-----------------------------------------------------------------------------
(* The environment: changes made to the service by others, and host restarts *)

DriftValues ==
    [defaultPermissions |-> {0, 32},
     localLogin |-> {FALSE, TRUE},
     applicationUrl |-> {"", "http://a"}]

\* Someone else changes one field of the remote settings object
Drift ==
    /\ \E f \in DOMAIN DriftValues : \E v \in DriftValues[f] :
          /\ remote[f] # v
          /\ remote' = [remote EXCEPT ![f] = v]
    /\ Ended("Drift", "ok", <<>>, 0)
    /\ response' = NewMainSettings
    /\ plan' = NullSettings
    /\ titleOnly' = FALSE
    /\ UNCHANGED <<tfstate, applied>>
    /\ UNCHANGED provVars

StringValues(strs) == {StringUnknown, StringNull} \cup {StringValue(x) : x \in strs}

URLs == {"", ServerURL, "http://localhost:5055"}
APIKeys == {"", ServerAPIKey, "ErrorAPIKey"}

\* every provider block and environment
ProviderBlocks == [url : StringValues(URLs), api_key : StringValues(APIKeys)]
Environments == [OVERSEERR_URL : URLs, OVERSEERR_API_KEY : APIKeys]

\* the acceptance tests' environment and provider blocks (the default one, and
\* testUnauthorizedProvider), and a block whose url is not known yet
TestEnvironment == [OVERSEERR_URL |-> ServerURL, OVERSEERR_API_KEY |-> ServerAPIKey]
TestProviderBlocks ==
    {[url |-> StringNull, api_key |-> StringNull],
     [url |-> StringValue("http://localhost:5055"), api_key |-> StringValue("ErrorAPIKey")],
     [url |-> StringUnknown, api_key |-> StringNull]}

\* A new provider process for the next Terraform command: the tracked state
\* and the remote object stay, the provider and resource objects are fresh
NewProcess ==
    /\ phase # "start"
    /\ \E d \in TestProviderBlocks : data' = d
    /\ phase' = "start"
    /\ provDiags' = <<>>
    /\ ResourceData' = NilClient
    /\ DataSourceData' = NilClient
    /\ client' = NilClient
    /\ resDiags' = <<>>
    /\ UNCHANGED environ
    /\ UNCHANGED opVars

\* resource blocks: application_title is required, the rest optional
Titles == {"overseerr", "overseerrTest"}
ResourceBlocks ==
    {[NullSettings EXCEPT !.application_title = StringValue(t),
                          !.application_url = u] :
        t \in Titles, u \in {StringNull, StringValue("http://a")}}

ImportIDs == {"settings", "7"}

\* the service's settings before Terraform first touches them
InitialRemotes ==
    {[NewMainSettings EXCEPT !.appLanguage = "en", !.applicationTitle = "Overseerr",
                             !.partialRequestsEnabled = TRUE, !.newPlexLogin = TRUE,
                             !.localLogin = TRUE, !.defaultPermissions = p] :
        p \in DriftValues.defaultPermissions}

InitWith(blocks, envs, remotes) ==
    /\ data \in blocks
    /\ environ \in envs
    /\ phase = "start"
    /\ provDiags = <<>>
    /\ ResourceData = NilClient
    /\ DataSourceData = NilClient
    /\ client = NilClient
    /\ resDiags = <<>>
    /\ remote \in remotes
    /\ tfstate = NoResource
    /\ lastOp = "none"
    /\ prevOp = "none"
    /\ outcome = "none"
    /\ prevOutcome = "none"
    /\ diags = <<>>
    /\ calls = 0
    /\ response = NewMainSettings
    /\ plan = NullSettings
    /\ oldState = NoResource
    /\ oldRemote = remote
    /\ applied = NullSettings
    /\ titleOnly = FALSE

Init == InitWith(TestProviderBlocks, {TestEnvironment}, InitialRemotes)

Next ==
    \/ ProviderConfigure
    \/ ResourceConfigure
    \/ NewProcess
    \/ \E cfg \in ResourceBlocks : Create(cfg)
    \/ Read
    \/ \E cfg \in ResourceBlocks : Update(cfg)
    \/ Delete
    \/ \E id \in ImportIDs : ImportState(id)
    \/ Drift

Spec == Init /\ [][Next]_vars

\* The provider's and the resource's Configure over every provider block and environment
InitProvider == InitWith(ProviderBlocks, Environments, {NewMainSettings})

NextProvider ==
    \/ ProviderConfigure
    \/ ResourceConfigure

SpecProvider == InitProvider /\ [][NextProvider]_vars

-----------------------------------------------------------------------------
(* Properties *)

CRU == {"Create", "Read", "Update"}

\* the tracked attributes carry exactly the values of the remote object ms
SameAsRemote(attrs, ms) ==
    /\ attrs.app_language = StringValue(ms.appLanguage)
    /\ attrs.application_url = StringValue(ms.applicationUrl)
    /\ attrs.application_title = StringValue(ms.applicationTitle)
    /\ attrs.default_permissions = Float64Value(ms.defaultPermissions)
    /\ attrs.trust_proxy = BoolValue(ms.trustProxy)
    /\ attrs.csrf_protection = BoolValue(ms.csrfProtection)
    /\ attrs.hide_available = BoolValue(ms.hideAvailable)
    /\ attrs.partial_requests_enabled = BoolValue(ms.partialRequestsEnabled)
    /\ attrs.local_login = BoolValue(ms.localLogin)
    /\ attrs.new_plex_login = BoolValue(ms.newPlexLogin)

AllKnown(attrs) == \A a \in DOMAIN attrs : attrs[a].k = "known"

\* C1: a Create, Read or Update whose remote call succeeds leaves the tracked
\* state equal to the remote response in every field; one whose remote call
\* fails reports "Client Error", leaves the tracked state as it was (nothing in
\* state after a failed Create), and has made exactly one call.
C1_AllOrNothing ==
    lastOp \in CRU =>
        /\ outcome = "ok" =>
              /\ tfstate.tracked
              /\ SameAsRemote(tfstate.attrs, response)
              /\ calls = 1
        /\ outcome = "error" =>
              /\ HasSummary(diags, "Client Error")
              /\ tfstate = oldState
              /\ lastOp = "Create" => ~tfstate.tracked
              /\ calls = 1

\* a Read of a tracked resource refused by the service for its API key
C1_Witness ==
    /\ lastOp = "Read"
    /\ outcome = "error"
    /\ tfstate.tracked
    /\ ~client.nil
    /\ client.XApiKey # ServerAPIKey

\* C2: Delete issues no remote call, removes the resource from the tracked
\* state, and leaves the remote settings object as it was.
C2_DeleteIsLocal ==
    lastOp = "Delete" =>
        /\ ~tfstate.tracked
        /\ remote = oldRemote
        /\ calls = 0

\* a Delete of a resource whose settings Terraform had committed to the service
C2_Witness ==
    /\ lastOp = "Delete"
    /\ oldState.tracked
    /\ remote.applicationTitle \in Titles

\* what an attribute resolves to: its explicit value, else the environment's
Resolved(v, envValue) == IF IsNull(v) THEN envValue ELSE v.v

EmptyAfterFallback(v, envValue) == ~IsUnknown(v) /\ Resolved(v, envValue) = ""

AnyEmpty ==
    \/ EmptyAfterFallback(data.url, environ.OVERSEERR_URL)
    \/ EmptyAfterFallback(data.api_key, environ.OVERSEERR_API_KEY)

AnyUnknown == IsUnknown(data.url) \/ IsUnknown(data.api_key)

Configured == phase # "start"

NoClientPublished == ResourceData.nil /\ DataSourceData.nil

WarningOnly == HasWarning(provDiags) /\ ~HasError(provDiags)

\* C3 as stated: whenever the resolved url or the resolved api_key is empty,
\* Configure ends with an error diagnostic and publishes no client.
C3_EmptyIsFatal ==
    (Configured /\ AnyEmpty) => (HasError(provDiags) /\ NoClientPublished)

\* C3 as amended: whenever the resolved url or the resolved api_key is empty,
\* Configure publishes no client, and it ends with an error diagnostic unless
\* the url is unknown, in which case it ends with the unknown-value warning only.
C3_EmptyIsFatalUnlessURLUnknown ==
    (Configured /\ AnyEmpty) =>
        /\ NoClientPublished
        /\ IF IsUnknown(data.url) THEN WarningOnly ELSE HasError(provDiags)

\* a known url with no api_key in the block and none in the environment
C3_Witness ==
    /\ Configured
    /\ data.url = StringValue(ServerURL)
    /\ IsNull(data.api_key)
    /\ environ.OVERSEERR_API_KEY = ""
    /\ HasError(provDiags)

\* C4: when Configure succeeds, the published client targets the explicit url
\* if one is given, else the environment's, and carries the explicit api_key if
\* one is given, else the environment's; resources and data sources get the
\* same client, and it is the one the resource stores.
C4_ExplicitBeforeEnvironment ==
    (Configured /\ ~ResourceData.nil) =>
        /\ provDiags = <<>>
        /\ ResourceData.url = Resolved(data.url, environ.OVERSEERR_URL)
        /\ ResourceData.XApiKey = Resolved(data.api_key, environ.OVERSEERR_API_KEY)
        /\ DataSourceData = ResourceData
        /\ phase = "ready" => client = ResourceData

\* an explicit url that differs from the environment's, with the key left to
\* the environment, stored by the resource
C4_Witness ==
    /\ phase = "ready"
    /\ ~client.nil
    /\ ~IsNull(data.url)
    /\ environ.OVERSEERR_URL \notin {"", data.url.v}
    /\ IsNull(data.api_key)

\* C5 as stated: an unknown url or api_key makes Configure end with a warning
\* and no error and publish no client, whatever the other attribute is.
C5_UnknownIsRecoverable ==
    (Configured /\ AnyUnknown) => (WarningOnly /\ NoClientPublished)

\* C5 as amended: an unknown url makes Configure end with a warning and no
\* error, whatever the api_key is; an unknown api_key does so when the url is
\* known and resolves to a non-empty string (an empty resolved url is reported
\* as an error before the api_key is looked at); no client is published in
\* either case.
C5_UnknownIsRecoverableAfterURL ==
    (Configured /\ AnyUnknown) =>
        /\ NoClientPublished
        /\ IF EmptyAfterFallback(data.url, environ.OVERSEERR_URL)
           THEN HasError(provDiags)
           ELSE WarningOnly

\* an unknown api_key beside a usable explicit url
C5_Witness ==
    /\ Configured
    /\ IsUnknown(data.api_key)
    /\ data.url = StringValue(ServerURL)
    /\ HasWarning(provDiags)

\* C6: an Update for a resource block that differs from the one applied before
\* in application_title alone, made on a tracked state that mirrors the remote
\* object, leaves every other field of the remote object unchanged, and the
\* tracked state equals the remote object afterwards.
C6_UpdateTitleOnly ==
    (/\ lastOp = "Update"
     /\ outcome = "ok"
     /\ titleOnly
     /\ SameAsRemote(oldState.attrs, oldRemote)) =>
        /\ \A f \in DOMAIN remote \ {"applicationTitle"} : remote[f] = oldRemote[f]
        /\ SameAsRemote(tfstate.attrs, remote)

\* C7: a successful Create writes the planned application_title and a known
\* value for every attribute; a successful Read right after a successful
\* Create or Read, with no other change to the remote object in between,
\* leaves the tracked state as it was.
C7_CreateReadRoundTrip ==
    /\ (lastOp = "Create" /\ outcome = "ok") =>
          /\ tfstate.attrs.application_title = plan.application_title
          /\ AllKnown(tfstate.attrs)
    /\ (/\ lastOp = "Read"
        /\ outcome = "ok"
        /\ prevOp \in {"Create", "Read"}
        /\ prevOutcome = "ok") =>
          /\ tfstate = oldState
          /\ AllKnown(tfstate.attrs)

\* a successful Read right after a successful Create
C7_Witness ==
    /\ lastOp = "Read"
    /\ outcome = "ok"
    /\ prevOp = "Create"
    /\ prevOutcome = "ok"

\* C8: after a successful Create or Read the tracked state has an "id"
\* attribute with a known, non-empty value, and a later successful Read or
\* Update keeps that value.
C8_IdIsSet ==
    /\ (lastOp \in {"Create", "Read"} /\ outcome = "ok") =>
          /\ "id" \in DOMAIN tfstate.attrs
          /\ tfstate.attrs["id"].k = "known"
          /\ tfstate.attrs["id"].v # ""
    /\ (lastOp \in {"Read", "Update"} /\ outcome = "ok" /\ oldState.tracked) =>
          /\ "id" \in DOMAIN tfstate.attrs
          /\ tfstate.attrs["id"] = oldState.attrs["id"]

\* C9: ImportState with any identifier hands the host a resource to track,
\* and the Read that follows leaves the tracked state equal to the remote
\* object in every field, whatever the identifier was.
C9_ImportThenRead ==
    /\ lastOp = "ImportState" =>
          /\ outcome = "ok"
          /\ tfstate.tracked
    /\ (lastOp = "Read" /\ prevOp = "ImportState" /\ outcome = "ok") =>
          SameAsRemote(tfstate.attrs, remote)

\* C10: no Create, Read or Update reaches its remote call with a nil client.
C10_ClientIsStored ==
    lastOp \in CRU => outcome # "panic"

====
